---------------------------- MODULE Spec2Model ----------------------------
(***************************************************************************)
(* Model of profiler/lib.profiler/native/src-jdk15/Stacks.c: the native    *)
(* stack-sampling bridge of the NetBeans profiler agent.                    *)
(*                                                                         *)
(*   Spec      the shared frame buffer pair: one control thread running    *)
(*             createNativeStackFrameBuffer / clearNativeStackFrameBuffer  *)
(*             and one sampling thread running getCurrentStackFrameIds,    *)
(*             interleaved at the granularity of accesses to the globals.  *)
(*   SpecMeta  calls of getMethodNamesForJMethodIds over a batch of method *)
(*             ids: the lookups of one id, then one step per append.       *)
(*   SpecAll   calls of getAllStackTraces: the capture, the set-up of the   *)
(*             three output arrays, the loops over threads and frames, the *)
(*             release of the snapshot.                                    *)
(*   SpecTwo   two threads each making one getMethodNamesForJMethodIds     *)
(*             call, interleaved, on the statics of lines 143-145.         *)
(***************************************************************************)
EXTENDS Integers, Sequences, FiniteSets, TLC

\* ------------------------------------------------------------------ bounds
MaxAllocs == 3      \* calloc results the control thread may obtain in a run
MaxCap == 2         \* largest sizeInFrames passed to createNativeStackFrameBuffer
MaxDepth == 2       \* largest depth passed to getCurrentStackFrameIds
MaxMethods == 2     \* largest nMethods passed to getMethodNamesForJMethodIds
MaxThreads == 2     \* largest thread_count GetAllStackTraces reports
MaxTwoMethods == 1  \* largest nMethods passed by each of two concurrent callers

NULL == 0

VARIABLES
    stack_frames_buffer,  \* static jvmtiFrameInfo *_stack_frames_buffer
    stack_id_buffer,      \* static jlong *_stack_id_buffer
    heap,                 \* the C heap: block id -> [st, cap, data, frees]
    ctl,                  \* the control thread (create / clear)
    smp,                  \* the sampling thread (getCurrentStackFrameIds)
    out,                  \* the caller's jlongArray "ret" of the sampling call
    byteData,             \* static jbyte *byteData: the bytes of the block it points to
    strOffsets,           \* static jint *strOffsets: the ints of the block it points to
    byteDataLen,          \* static int byteDataLen
    dataOfs,              \* static int dataOfs
    ofsIdx,               \* static int ofsIdx
    call,                 \* the getMethodNamesForJMethodIds call: pc, methodIds, i, ...
    result,               \* what that call hands to Java: ret and packedArrayOffsets
    hist,                 \* history of that call, kept for the properties
    threadType,           \* static jclass threadType
    longArrType,          \* static jclass longArrType
    threads,              \* element 0 of the holder "threads" of getAllStackTraces
    states,               \* element 0 of the holder "states"
    frames,               \* element 0 of the holder "frames"
    snap,                 \* the getAllStackTraces call: pc, locals, stack_info, history
    two,                  \* two concurrent getMethodNamesForJMethodIds calls: caller -> call
    dangling              \* whether the block byteData / strOffsets points to has been freed

fbVars == <<stack_frames_buffer, stack_id_buffer, heap, ctl, smp, out>>

metaVars == <<byteData, strOffsets, byteDataLen, dataOfs, ofsIdx, call, result, hist>>

allVars == <<threadType, longArrType, threads, states, frames, snap>>

twoVars == <<two, dangling>>

\* ------------------------------------------------------- the monitored runtime
\* Threads of the monitored runtime and their stacks, innermost frame first;
\* each entry is the jmethodID of the frame.
Threads == {"t1", "t2"}

StackOf(t) == IF t = "t1" THEN <<11, 12>> ELSE IF t = "t2" THEN <<11>> ELSE <<>>

\* (jlong) jmethod: the same bits, as a 64-bit integer.
convert_jmethodID_to_jlong(jmethod) == jmethod

Min(a, b) == IF a < b THEN a ELSE b

\* ------------------------------------------------------------------ the heap
Blocks == 1..MaxAllocs

UnusedBlock == [st |-> "unused", cap |-> 0, data |-> <<>>, frees |-> 0]

\* The block the next successful calloc returns: never an address handed out
\* before, so that a dangling pointer stays recognisable.
FreshBlock == CHOOSE b \in Blocks : heap[b].st = "unused" /\ \A c \in Blocks : c < b => heap[c].st # "unused"

Allocated == {b \in Blocks : heap[b].st # "unused"}

\* calloc(n, size): a zero-filled block of n elements.
Calloc(h, b, n) == [h EXCEPT ![b] = [st |-> "live", cap |-> n, data |-> [k \in 1..n |-> 0], frees |-> 0]]

\* Mutant of Free: the block is not released.
Free_NotReleased(h, b) == h

\* free(p): the block is released; its contents are gone.
Free(h, b) == [h EXCEPT ![b] = [st |-> "freed", cap |-> 0, data |-> <<>>, frees |-> h[b].frees + 1]]

\* A store of v at 0-based index i of block b; a store beyond the block's end
\* does not land in the block.
Store(h, b, i, v) == IF h[b].st = "live" /\ i < h[b].cap THEN [h EXCEPT ![b].data[i + 1] = v] ELSE h

\* What a load of 0-based index i of block b yields: the element, or Garbage
\* when the block is released or the index is beyond its end.
Garbage == 0 - 1

Load(h, b, i) == IF h[b].st = "live" /\ i < h[b].cap THEN h[b].data[i + 1] ELSE Garbage

\* ------------------------------------------------- the control thread (lines 88-115)
\* History kept for the properties: whether the sampling call in flight ran
\* without any step of the control thread in between.
InFlight == smp.pc \in {"walk", "loop", "set"}

Disturbed == IF InFlight THEN [smp EXCEPT !.alone = FALSE] ELSE smp

Running == smp.pc # "crashed"

\* History kept for the properties: the arrays the two references point to when
\* clearNativeStackFrameBuffer is entered, kept in ctl.held until it returns.
Held == {stack_frames_buffer, stack_id_buffer} \ {NULL}

\* createNativeStackFrameBuffer, line 91: an existing buffer is cleared first.
CreateCall(sizeInFrames) ==
    /\ Running /\ ctl.pc = "idle"
    /\ Cardinality(Allocated) + 2 <= MaxAllocs
    /\ ctl' = [ctl EXCEPT !.pc = IF stack_frames_buffer # NULL THEN "k_free1" ELSE "c_alloc1",
                          !.after = "c_alloc1", !.size = sizeInFrames, !.createFailed = FALSE,
                          !.held = IF stack_frames_buffer # NULL THEN Held ELSE {}]
    /\ smp' = Disturbed
    /\ UNCHANGED <<stack_frames_buffer, stack_id_buffer, heap, out, metaVars, allVars, twoVars>>

\* line 94: _stack_frames_buffer = calloc(sizeInFrames, sizeof(jvmtiFrameInfo));
\* calloc may return NULL.
CreateAllocFrames ==
    /\ Running /\ ctl.pc = "c_alloc1"
    /\ \E ok \in BOOLEAN :
         /\ stack_frames_buffer' = IF ok THEN FreshBlock ELSE NULL
         /\ heap' = IF ok THEN Calloc(heap, FreshBlock, ctl.size) ELSE heap
    /\ ctl' = [ctl EXCEPT !.pc = "c_alloc2"]
    /\ smp' = Disturbed
    /\ UNCHANGED <<stack_id_buffer, out, metaVars, allVars, twoVars>>

\* line 95: _stack_id_buffer = calloc(sizeInFrames, sizeof(jlong));
CreateAllocIds ==
    /\ Running /\ ctl.pc = "c_alloc2"
    /\ \E ok \in BOOLEAN :
         /\ stack_id_buffer' = IF ok THEN FreshBlock ELSE NULL
         /\ heap' = IF ok THEN Calloc(heap, FreshBlock, ctl.size) ELSE heap
         /\ ctl' = [ctl EXCEPT !.pc = "idle", !.after = "idle", !.size = 0,
                               !.createFailed = (stack_frames_buffer = NULL \/ ~ok)]
    /\ smp' = Disturbed
    /\ UNCHANGED <<stack_frames_buffer, out, metaVars, allVars, twoVars>>

\* clearNativeStackFrameBuffer called from Java.
ClearCall ==
    /\ Running /\ ctl.pc = "idle"
    /\ ctl' = [ctl EXCEPT !.pc = "k_free1", !.after = "idle", !.createFailed = FALSE, !.held = Held]
    /\ smp' = Disturbed
    /\ UNCHANGED <<stack_frames_buffer, stack_id_buffer, heap, out, metaVars, allVars, twoVars>>

\* lines 107-109: if (_stack_frames_buffer != NULL) free(_stack_frames_buffer);
ClearFreeFrames ==
    /\ Running /\ ctl.pc = "k_free1"
    /\ heap' = IF stack_frames_buffer # NULL THEN Free(heap, stack_frames_buffer) ELSE heap
    /\ ctl' = [ctl EXCEPT !.pc = "k_free2"]
    /\ smp' = Disturbed
    /\ UNCHANGED <<stack_frames_buffer, stack_id_buffer, out, metaVars, allVars, twoVars>>

\* lines 110-112: if (_stack_id_buffer != NULL) free(_stack_id_buffer);
ClearFreeIds ==
    /\ Running /\ ctl.pc = "k_free2"
    /\ heap' = IF stack_id_buffer # NULL THEN Free(heap, stack_id_buffer) ELSE heap
    /\ ctl' = [ctl EXCEPT !.pc = "k_null1"]
    /\ smp' = Disturbed
    /\ UNCHANGED <<stack_frames_buffer, stack_id_buffer, out, metaVars, allVars, twoVars>>

\* line 113: _stack_frames_buffer = NULL;
ClearNullFrames ==
    /\ Running /\ ctl.pc = "k_null1"
    /\ stack_frames_buffer' = NULL
    /\ ctl' = [ctl EXCEPT !.pc = "k_null2"]
    /\ smp' = Disturbed
    /\ UNCHANGED <<stack_id_buffer, heap, out, metaVars, allVars, twoVars>>

\* line 114: _stack_id_buffer = NULL; and the return to the caller.
ClearNullIds ==
    /\ Running /\ ctl.pc = "k_null2"
    /\ stack_id_buffer' = NULL
    /\ ctl' = [ctl EXCEPT !.pc = ctl.after, !.held = {}]
    /\ smp' = Disturbed
    /\ UNCHANGED <<stack_frames_buffer, heap, out, metaVars, allVars, twoVars>>

\* ------------------------------------- the sampling thread (lines 123-140)
Zeros == [k \in 1..MaxDepth |-> 0]

IdleSampler == [pc |-> "idle", thread |-> "t1", depth |-> 0, count |-> 0, i |-> 0, ret |-> 0,
                entryNull |-> FALSE, afterFailedCreate |-> FALSE, alone |-> TRUE,
                walked |-> FALSE, released |-> FALSE, sharedWrites |-> 0, outWritten |-> FALSE]

\* Mutant of NoBuffer: the test looks at the identifier array instead.
NoBuffer_IdBuffer == stack_id_buffer = NULL

\* line 127: if (_stack_frames_buffer == NULL)
NoBuffer == stack_frames_buffer = NULL

\* Entry of getCurrentStackFrameIds with the test of line 127: with no buffer
\* the call returns 0 at once (line 129).
SampleCall(jni_thread, depth) ==
    /\ smp.pc \in {"idle", "done"}
    /\ out' = Zeros
    /\ smp' = [IdleSampler EXCEPT !.pc = IF NoBuffer THEN "done" ELSE "walk",
                                  !.thread = jni_thread, !.depth = depth,
                                  !.entryNull = (stack_frames_buffer = NULL),
                                  !.afterFailedCreate = (ctl.pc = "idle" /\ ctl.createFailed)]
    /\ UNCHANGED <<stack_frames_buffer, stack_id_buffer, heap, ctl, metaVars, allVars, twoVars>>

\* Mutant of FramesWalked: the walk ignores max_frame_count.
FramesWalked_WholeStack(t, depth) == Len(StackOf(t))

\* The frames GetStackTrace stores: the innermost Min(depth, stack length).
FramesWalked(t, depth) == Min(depth, Len(StackOf(t)))

\* The block after GetStackTrace stored n frames of thread t from its start.
WalkInto(h, b, t, n) == IF h[b].st = "live" THEN [h EXCEPT ![b].data = [k \in 1..h[b].cap |-> IF k <= n THEN StackOf(t)[k] ELSE h[b].data[k]]] ELSE h

\* line 132: GetStackTrace(_jvmti, jni_thread, 0, depth, _stack_frames_buffer, &count).
\* With a null frame_buffer the runtime answers JVMTI_ERROR_NULL_POINTER and
\* leaves count, an uninitialised local, as it was: any value.
SampleWalk ==
    /\ smp.pc = "walk"
    /\ LET p == stack_frames_buffer
           n == FramesWalked(smp.thread, smp.depth)
       IN  IF p = NULL
           THEN /\ \E c \in 0..MaxDepth :
                     smp' = [smp EXCEPT !.pc = IF c > 0 THEN "loop" ELSE "set",
                                        !.count = c, !.walked = TRUE]
                /\ heap' = heap
           ELSE /\ heap' = WalkInto(heap, p, smp.thread, n)
                /\ smp' = [smp EXCEPT !.pc = IF n > 0 THEN "loop" ELSE "set",
                                      !.count = n, !.walked = TRUE,
                                      !.released = (n > 0 /\ heap[p].st = "freed"),
                                      !.sharedWrites = n]
    /\ UNCHANGED <<stack_frames_buffer, stack_id_buffer, ctl, out, metaVars, allVars, twoVars>>

\* lines 134-136, one iteration:
\* _stack_id_buffer[i] = convert_jmethodID_to_jlong(_stack_frames_buffer[i].method);
\* A null pointer here ends the process.
SampleLoop ==
    /\ smp.pc = "loop"
    /\ LET p == stack_frames_buffer
           q == stack_id_buffer
       IN  IF p = NULL \/ q = NULL
           THEN /\ smp' = [smp EXCEPT !.pc = "crashed"]
                /\ heap' = heap
           ELSE /\ heap' = Store(heap, q, smp.i, convert_jmethodID_to_jlong(Load(heap, p, smp.i)))
                /\ smp' = [smp EXCEPT !.pc = IF smp.i + 1 < smp.count THEN "loop" ELSE "set",
                                      !.i = smp.i + 1,
                                      !.released = smp.released \/ heap[p].st = "freed" \/ heap[q].st = "freed",
                                      !.sharedWrites = smp.sharedWrites + 1]
    /\ UNCHANGED <<stack_frames_buffer, stack_id_buffer, ctl, out, metaVars, allVars, twoVars>>

\* lines 137-139: SetLongArrayRegion(env, ret, 0, count, _stack_id_buffer); return count;
SampleSet ==
    /\ smp.pc = "set"
    /\ LET q == stack_id_buffer
       IN  IF smp.count > 0 /\ q = NULL
           THEN /\ smp' = [smp EXCEPT !.pc = "crashed"]
                /\ out' = out
           ELSE /\ out' = [k \in 1..MaxDepth |-> IF k <= smp.count THEN Load(heap, q, k - 1) ELSE out[k]]
                /\ smp' = [smp EXCEPT !.pc = "done", !.ret = smp.count, !.count = 0, !.i = 0,
                                      !.outWritten = smp.count > 0,
                                      !.released = smp.released \/ (smp.count > 0 /\ heap[q].st = "freed")]
    /\ UNCHANGED <<stack_frames_buffer, stack_id_buffer, heap, ctl, metaVars, allVars, twoVars>>

\* ------------------------------------ the packed strings array (lines 143-172)
\* Characters are one-character strings; NUL ends a C string. Uninit is a byte
\* of malloc'ed memory that nothing has written yet.
NUL == "\\0"

Uninit == "?"

\* A C string holding the characters of s.
CStr(s) == s \o <<NUL>>

\* strlen(s): the number of characters before the first NUL.
strlen(s) == (CHOOSE k \in 1..Len(s) : s[k] = NUL /\ \A j \in 1..(k - 1) : s[j] # NUL) - 1

\* malloc(n): n bytes of unspecified content.
Malloc(n) == [k \in 1..n |-> Uninit]

\* Mutant of memcpy: the last of the n bytes is not copied.
memcpy_OneShort(dst, src, n) == IF n = 0 THEN dst ELSE SubSeq(src, 1, n - 1) \o SubSeq(dst, n, Len(dst))

\* memcpy(dst, src, n): the first n bytes of dst become those of src.
memcpy(dst, src, n) == SubSeq(src, 1, n) \o SubSeq(dst, n + 1, Len(dst))

\* strncpy(dst + ofs, s, len) with len = strlen(s): len characters, no NUL.
strncpy(dst, ofs, s, len) == SubSeq(dst, 1, ofs) \o SubSeq(s, 1, len) \o SubSeq(dst, ofs + len + 1, Len(dst))

\* a[idx] = v on an int array, idx from 0.
StoreInt(a, idx, v) == SubSeq(a, 1, idx) \o <<v>> \o SubSeq(a, idx + 2, Len(a))

\* Mutant of GrownLen: the capacity is doubled, whatever is needed.
GrownLen_DoubleOnly(oldLen, needed) == oldLen * 2

\* lines 151-155: the capacity after an overflow.
GrownLen(oldLen, needed) == IF oldLen * 2 < needed THEN needed ELSE oldLen * 2

\* Mutant of copy_into_data_array: the offset is recorded after dataOfs has
\* been advanced.
copy_into_data_array_OffsetAfter(st, s) ==
    LET len == strlen(s)
        grow == st.dataOfs + len > st.byteDataLen
        newLen == IF grow THEN GrownLen(st.byteDataLen, st.dataOfs + len) ELSE st.byteDataLen
        data == IF grow THEN memcpy(Malloc(newLen), st.byteData, st.dataOfs) ELSE st.byteData
    IN  [byteData |-> strncpy(data, st.dataOfs, s, len),
         byteDataLen |-> newLen,
         strOffsets |-> StoreInt(st.strOffsets, st.ofsIdx, st.dataOfs + len),
         ofsIdx |-> st.ofsIdx + 1,
         dataOfs |-> st.dataOfs + len,
         reallocs |-> st.reallocs + (IF grow THEN 1 ELSE 0)]

\* copy_into_data_array(s) on the statics st = [byteData, byteDataLen,
\* strOffsets, dataOfs, ofsIdx] (and the history field reallocs).
copy_into_data_array(st, s) ==
    LET len == strlen(s)
        grow == st.dataOfs + len > st.byteDataLen
        newLen == IF grow THEN GrownLen(st.byteDataLen, st.dataOfs + len) ELSE st.byteDataLen
        data == IF grow THEN memcpy(Malloc(newLen), st.byteData, st.dataOfs) ELSE st.byteData
    IN  [byteData |-> strncpy(data, st.dataOfs, s, len),
         byteDataLen |-> newLen,
         strOffsets |-> StoreInt(st.strOffsets, st.ofsIdx, st.dataOfs),
         ofsIdx |-> st.ofsIdx + 1,
         dataOfs |-> st.dataOfs + len,
         reallocs |-> st.reallocs + (IF grow THEN 1 ELSE 0)]

\* Mutant of DummyNames: the native flag "0" is not appended.
DummyNames_NoFlag == <<CStr(<<"<", "u", "n", "k", "n", "o", "w", "n", " ", "c", "l", "a", "s", "s", ">">>), CStr(<<"<", "u", "n", "k", "n", "o", "w", "n", " ", "m", "e", "t", "h", "o", "d", ">">>), CStr(<<"(", ")", "V">>)>>

\* The strings of copy_dummy_names_into_data_array, lines 168-171.
DummyNames == <<CStr(<<"<", "u", "n", "k", "n", "o", "w", "n", " ", "c", "l", "a", "s", "s", ">">>), CStr(<<"<", "u", "n", "k", "n", "o", "w", "n", " ", "m", "e", "t", "h", "o", "d", ">">>), CStr(<<"(", ")", "V">>), CStr(<<"0">>)>>

\* ------------------------------------------ the runtime's answers per method
\* A long identifier of n characters.
LongName(n) == [k \in 1..n |-> IF k % 3 = 1 THEN "x" ELSE IF k % 3 = 2 THEN "y" ELSE "z"]

OkMethod == [decl |-> "ok", classOk |-> TRUE, className |-> <<"L", "a", "/", "B", ";">>, genericSignature |-> FALSE,
             nameOk |-> TRUE, methodName |-> <<"m">>, methodSig |-> <<"(", ")", "V">>, genericMethodSig |-> FALSE,
             nativeOk |-> TRUE, native |-> FALSE]

\* What the runtime answers for each method id of the model: decl is the
\* outcome of GetMethodDeclaringClass ("err": an error code; "null": a null
\* class; "zero": a class reference whose first word is 0), classOk / nameOk /
\* nativeOk whether GetClassSignature / GetMethodName / IsMethodNative
\* succeed, genericSignature / genericMethodSig whether that string is non-null.
JvmtiMethod(id) ==
    CASE id = 1 -> OkMethod
      [] id = 2 -> [OkMethod EXCEPT !.className = <<"[", "I">>, !.methodName = LongName(41), !.methodSig = <<"(", "I", ")", "I">>,
                                    !.native = TRUE, !.genericSignature = TRUE, !.genericMethodSig = TRUE]
      [] id = 3 -> [OkMethod EXCEPT !.decl = "err"]
      [] id = 4 -> [OkMethod EXCEPT !.classOk = FALSE]
      [] id = 5 -> [OkMethod EXCEPT !.className = <<"I">>, !.nameOk = FALSE, !.genericSignature = TRUE]
      [] id = 6 -> [OkMethod EXCEPT !.className = <<"[", "L", "a", ";">>, !.nativeOk = FALSE, !.native = TRUE]
      [] id = 7 -> [OkMethod EXCEPT !.decl = "zero"]
      [] id = 8 -> [OkMethod EXCEPT !.className = <<"L">> \o LongName(85) \o <<";">>, !.methodName = LongName(41)]
      [] OTHER -> [OkMethod EXCEPT !.decl = "null"]

MethodIds == 1..9

\* Mutant of InvalidDeclaringClass: without the *((int*)declaringClass) == 0 test.
InvalidDeclaringClass_NoZeroTest(m) == m.decl = "err" \/ m.decl = "null"

\* line 207: res != JVMTI_ERROR_NONE || declaringClass == NULL || *((int*)declaringClass) == 0
InvalidDeclaringClass(m) == m.decl = "err" \/ m.decl = "null" \/ m.decl = "zero"

\* Mutant of TypeNameArg: the copy starts at className, not className+1.
TypeNameArg_KeepFirst(className) ==
    LET len == strlen(className)
    IN  IF className[1] = "L" /\ className[len] = ";"
        THEN [className EXCEPT ![len] = NUL]
        ELSE className

\* lines 250-256: the type name as handed to copy_into_data_array. For
\* L...; the last character is overwritten by NUL and the copy starts at the
\* second character.
TypeNameArg(className) ==
    LET len == strlen(className)
    IN  IF className[1] = "L" /\ className[len] = ";"
        THEN Tail([className EXCEPT ![len] = NUL])
        ELSE className

\* line 260: native ? "1" : "0"
NativeFlag(native) == IF native THEN CStr(<<"1">>) ELSE CStr(<<"0">>)

\* Mutant of ResolvedNames: the method signature before the method name.
ResolvedNames_SigFirst(className, methodName, methodSig, native) == <<TypeNameArg(className), methodSig, methodName, NativeFlag(native)>>

\* lines 250-260: the four strings appended for a resolved method, in order.
ResolvedNames(className, methodName, methodSig, native) == <<TypeNameArg(className), methodName, methodSig, NativeFlag(native)>>

\* lines 206-260 for one method id: the strings to append (names), the number
\* of runtime lookups made (lookups) and the number of strings the runtime
\* handed out (handedOut) and got back through Deallocate (givenBack). The
\* local "native" is JNI_FALSE unless IsMethodNative succeeds and sets it.
LookupMethod(id) ==
    LET m == JvmtiMethod(id)
        nClass == 1 + (IF m.genericSignature THEN 1 ELSE 0)
        nName == 2 + (IF m.genericMethodSig THEN 1 ELSE 0)
    IN  IF InvalidDeclaringClass(m)
        THEN [names |-> DummyNames, lookups |-> 1, handedOut |-> 0, givenBack |-> 0]
        ELSE IF ~m.classOk
        THEN [names |-> DummyNames, lookups |-> 2, handedOut |-> 0, givenBack |-> 0]
        ELSE IF ~m.nameOk
        THEN [names |-> DummyNames, lookups |-> 3, handedOut |-> nClass, givenBack |-> 0]
        ELSE [names |-> ResolvedNames(CStr(m.className), CStr(m.methodName), CStr(m.methodSig), m.nativeOk /\ m.native),
              lookups |-> 4, handedOut |-> nClass + nName, givenBack |-> nClass + nName]

\* ------------------------------- getMethodNamesForJMethodIds (lines 180-287)
PACKEDARR_ITEMS == 4

Statics == [byteData |-> byteData, byteDataLen |-> byteDataLen, strOffsets |-> strOffsets,
            dataOfs |-> dataOfs, ofsIdx |-> ofsIdx, reallocs |-> hist.reallocs]

\* lines 191-196: the statics as the call sets them up for nMethods ids.
InitialStatics(nMethods) ==
    [byteData |-> Malloc(nMethods * PACKEDARR_ITEMS * 10),
     byteDataLen |-> nMethods * PACKEDARR_ITEMS * 10,
     strOffsets |-> [k \in 1..(nMethods * PACKEDARR_ITEMS) |-> Garbage],
     dataOfs |-> 0, ofsIdx |-> 0, reallocs |-> 0]

IdleCall == [pc |-> "idle", methodIds |-> <<>>, i |-> 0, pending |-> <<>>, toGiveBack |-> 0]

NoHistory == [appended |-> <<>>, reallocs |-> 0, lookups |-> <<>>, handedOut |-> 0, givenBack |-> 0]

\* The characters of the C string s.
Chars(s) == SubSeq(s, 1, strlen(s))

\* Entry and lines 189-196, with jmethodIds copied into methodIds.
MetaCall(jmethodIds) ==
    /\ call.pc \in {"idle", "returned"}
    /\ LET st == InitialStatics(Len(jmethodIds))
       IN  /\ byteData' = st.byteData
           /\ byteDataLen' = st.byteDataLen
           /\ strOffsets' = st.strOffsets
           /\ dataOfs' = st.dataOfs
           /\ ofsIdx' = st.ofsIdx
    /\ call' = [IdleCall EXCEPT !.pc = IF Len(jmethodIds) > 0 THEN "lookup" ELSE "finish",
                                !.methodIds = jmethodIds]
    /\ result' = [ret |-> <<>>, packedArrayOffsets |-> [k \in 1..(Len(jmethodIds) * PACKEDARR_ITEMS) |-> 0]]
    /\ hist' = NoHistory
    /\ UNCHANGED <<fbVars, allVars, twoVars, twoVars>>

\* lines 198-256 of one iteration: the lookups for methodIds[i] and the choice
\* of the four strings to append.
MetaLookup ==
    /\ call.pc = "lookup"
    /\ LET r == LookupMethod(call.methodIds[call.i + 1])
       IN  /\ call' = [call EXCEPT !.pc = "append", !.pending = r.names, !.toGiveBack = r.givenBack]
           /\ hist' = [hist EXCEPT !.lookups = Append(hist.lookups, r.lookups),
                                   !.handedOut = hist.handedOut + r.handedOut]
    /\ UNCHANGED <<fbVars, allVars, twoVars, byteData, strOffsets, byteDataLen, dataOfs, ofsIdx, result>>

\* One call of copy_into_data_array (lines 147-165) from the loop body or from
\* copy_dummy_names_into_data_array.
MetaAppend ==
    /\ call.pc = "append"
    /\ LET s == Head(call.pending)
           st == copy_into_data_array(Statics, s)
       IN  /\ byteData' = st.byteData
           /\ byteDataLen' = st.byteDataLen
           /\ strOffsets' = st.strOffsets
           /\ dataOfs' = st.dataOfs
           /\ ofsIdx' = st.ofsIdx
           /\ hist' = [hist EXCEPT !.appended = hist.appended \o Chars(s), !.reallocs = st.reallocs]
    /\ call' = [call EXCEPT !.pending = Tail(call.pending),
                            !.pc = IF Len(call.pending) = 1 THEN "release" ELSE "append"]
    /\ UNCHANGED <<fbVars, allVars, twoVars, result>>

\* lines 262-273 (the Deallocate calls of a resolved method; none after a
\* placeholder, which leaves by "continue") and the loop's i++.
MetaEndIteration ==
    /\ call.pc = "release"
    /\ hist' = [hist EXCEPT !.givenBack = hist.givenBack + call.toGiveBack]
    /\ call' = [call EXCEPT !.i = call.i + 1, !.toGiveBack = 0,
                            !.pc = IF call.i + 1 < Len(call.methodIds) THEN "lookup" ELSE "finish"]
    /\ UNCHANGED <<fbVars, allVars, twoVars, byteData, strOffsets, byteDataLen, dataOfs, ofsIdx, result>>

\* lines 276-286: the first dataOfs bytes go to a new byte array, the first
\* nMethods*PACKEDARR_ITEMS offsets to packedArrayOffsets; both blocks are freed.
MetaReturn ==
    /\ call.pc = "finish"
    /\ result' = [ret |-> SubSeq(byteData, 1, dataOfs),
                  packedArrayOffsets |-> SubSeq(strOffsets, 1, Len(call.methodIds) * PACKEDARR_ITEMS)]
    /\ byteData' = <<>>
    /\ strOffsets' = <<>>
    /\ call' = [call EXCEPT !.pc = "returned"]
    /\ UNCHANGED <<fbVars, allVars, twoVars, byteDataLen, dataOfs, ofsIdx, hist>>

\* The whole call as a function of the batch: what MetaCall .. MetaReturn
\* compute for jmethodIds.
RECURSIVE AppendAll(_, _)
AppendAll(st, names) == IF names = <<>> THEN st ELSE AppendAll(copy_into_data_array(st, Head(names)), Tail(names))

RECURSIVE ResolveFrom(_, _, _)
ResolveFrom(st, ids, k) == IF k > Len(ids) THEN st ELSE ResolveFrom(AppendAll(st, LookupMethod(ids[k]).names), ids, k + 1)

ResolveBatch(jmethodIds) ==
    LET st == ResolveFrom(InitialStatics(Len(jmethodIds)), jmethodIds, 1)
    IN  [ret |-> SubSeq(st.byteData, 1, st.dataOfs),
         packedArrayOffsets |-> SubSeq(st.strOffsets, 1, Len(jmethodIds) * PACKEDARR_ITEMS)]

\* The batches of the model: up to MaxMethods method ids.
Batches == UNION {[1..n -> MethodIds] : n \in 0..MaxMethods}

\* ------------------------------------------ getAllStackTraces (lines 295-354)
MAX_FRAMES == 16384

\* A Java array reference: null, or an array object with its elements. The
\* locals jthreadArr, statesArr and methodIdArrArr refer to the same objects as
\* element 0 of the three holders. A calloc'ed block is written the same way.
NullRef == [null |-> TRUE, elems |-> <<>>]

\* NewObjectArray / NewIntArray / NewLongArray / calloc: n elements, each init.
NewArray(n, init) == [null |-> FALSE, elems |-> [k \in 1..n |-> init]]

\* The null element of an object array.
NullElem == "null"

\* The threads the runtime may report, and the raw states it may report for
\* them (JVMTI thread state bits).
AllThreads == Threads \cup {"t3"}

RawStates == {2, 5}

\* The status code the profiler uses for a raw thread state: a pure function
\* of the raw state, defined outside Stacks.c.
convert_JVMTI_thread_status_to_jfluid_status(state) == IF state = 5 THEN 1 ELSE 0

\* One jvmtiStackInfo of GetAllStackTraces(MAX_FRAMES): thread, state,
\* frame_buffer (innermost first) and frame_count.
StackInfo(t, state) ==
    [thread |-> t, state |-> state,
     frame_buffer |-> SubSeq(StackOf(t), 1, FramesWalked(t, MAX_FRAMES)),
     frame_count |-> FramesWalked(t, MAX_FRAMES)]

\* The stack_info arrays GetAllStackTraces may return: up to MaxThreads
\* distinct threads in any order, each in any raw state.
Snapshots ==
    {s \in UNION {[1..n -> {StackInfo(t, st) : t \in AllThreads, st \in RawStates}] : n \in 0..MaxThreads} :
        \A i, j \in 1..Len(s) : i # j => s[i].thread # s[j].thread}

\* What a read of released snapshot memory yields.
GarbageInfo == [thread |-> "?", state |-> Garbage, frame_buffer |-> <<>>, frame_count |-> 0]

\* Mutant of ThreadInfoAt: the loop always looks at the first entry.
ThreadInfoAt_First(c, ti) == IF c.info = "live" THEN c.stack_info[1] ELSE GarbageInfo

\* line 328: infop = &stack_info[ti]; and the reads through infop.
ThreadInfoAt(c, ti) == IF c.info = "live" THEN c.stack_info[ti + 1] ELSE GarbageInfo

\* Mutant of CaptureFailed: the error code is not looked at.
CaptureFailed_Never(err) == FALSE

\* line 308: if (err != JVMTI_ERROR_NONE)
CaptureFailed(err) == err # "JVMTI_ERROR_NONE"

\* Mutant of Deallocate: the snapshot is not released.
Deallocate_Kept(c) == c

\* line 351: Deallocate(_jvmti, stack_info) releases all the memory
\* GetAllStackTraces allocated.
Deallocate(c) == [c EXCEPT !.info = "released", !.releases = c.releases + 1]

\* Set<Type>ArrayRegion(array, start, len, buf).
SetArrayRegion(array, start, len, buf) ==
    [array EXCEPT !.elems = SubSeq(array.elems, 1, start) \o SubSeq(buf.elems, 1, len) \o SubSeq(array.elems, start + len + 1, Len(array.elems))]

\* a[idx] = v on a Java array or calloc'ed block, idx from 0.
SetElement(array, idx, v) ==
    [array EXCEPT !.elems = SubSeq(array.elems, 1, idx) \o <<v>> \o SubSeq(array.elems, idx + 2, Len(array.elems))]

\* The call record: position, locals, the runtime's stack_info with its
\* allocation status (info), and history for the properties: releases counts
\* the Deallocate calls, afterRelease is set by a read of stack_info data made
\* after its release.
IdleSnap == [pc |-> "idle", err |-> "JVMTI_ERROR_NONE", stack_info |-> <<>>, info |-> "none",
             thread_count |-> 0, ti |-> 0, fi |-> 0, state_buffer |-> NullRef, id_buffer |-> NullRef,
             releases |-> 0, afterRelease |-> FALSE]

\* lines 307-310: GetAllStackTraces either fails, leaving stack_info and
\* thread_count as they were, or hands out a snapshot.
AllCall ==
    /\ snap.pc \in {"idle", "returned"}
    /\ \/ \E e \in {"JVMTI_ERROR_OUT_OF_MEMORY", "JVMTI_ERROR_WRONG_PHASE"} :
            snap' = [IdleSnap EXCEPT !.err = e, !.pc = IF CaptureFailed(e) THEN "returned" ELSE "setup"]
       \/ \E s \in Snapshots :
            snap' = [IdleSnap EXCEPT !.stack_info = s, !.info = "live", !.thread_count = Len(s),
                                     !.pc = IF CaptureFailed("JVMTI_ERROR_NONE") THEN "returned" ELSE "setup"]
    /\ UNCHANGED <<fbVars, metaVars, twoVars, threadType, longArrType, threads, states, frames>>

\* lines 311-325: the class references are looked up once; three new arrays
\* go into the holders; state_buffer is calloc'ed, which may fail.
AllSetup ==
    /\ snap.pc = "setup"
    /\ threadType' = IF threadType = NULL THEN 1 ELSE threadType
    /\ longArrType' = IF longArrType = NULL THEN 1 ELSE longArrType
    /\ threads' = NewArray(snap.thread_count, NullElem)
    /\ states' = NewArray(snap.thread_count, 0)
    /\ frames' = NewArray(snap.thread_count, NullRef)
    /\ \E ok \in BOOLEAN :
         snap' = [snap EXCEPT !.state_buffer = IF ok THEN NewArray(snap.thread_count, 0) ELSE NullRef,
                              !.pc = IF snap.thread_count > 0 THEN "thread" ELSE "states"]
    /\ UNCHANGED <<fbVars, metaVars, twoVars>>

\* lines 328-340: the head of one iteration of the thread loop. A store
\* through a null state_buffer ends the process.
AllThread ==
    /\ snap.pc = "thread"
    /\ LET infop == ThreadInfoAt(snap, snap.ti)
       IN  IF snap.state_buffer.null
           THEN /\ snap' = [snap EXCEPT !.pc = "crashed"]
                /\ UNCHANGED <<threads, frames>>
           ELSE /\ threads' = SetElement(threads, snap.ti, infop.thread)
                /\ frames' = SetElement(frames, snap.ti, NewArray(infop.frame_count, 0))
                /\ \E ok \in BOOLEAN :
                     snap' = [snap EXCEPT !.state_buffer = SetElement(snap.state_buffer, snap.ti, convert_JVMTI_thread_status_to_jfluid_status(infop.state)),
                                          !.id_buffer = IF ok THEN NewArray(infop.frame_count, 0) ELSE NullRef,
                                          !.fi = 0,
                                          !.afterRelease = snap.afterRelease \/ snap.info # "live",
                                          !.pc = IF infop.frame_count > 0 THEN "frame" ELSE "region"]
    /\ UNCHANGED <<fbVars, metaVars, twoVars, threadType, longArrType, states>>

\* lines 341-343, one iteration:
\* id_buffer[fi] = convert_jmethodID_to_jlong(frames[fi].method);
AllFrame ==
    /\ snap.pc = "frame"
    /\ LET infop == ThreadInfoAt(snap, snap.ti)
       IN  IF snap.id_buffer.null
           THEN snap' = [snap EXCEPT !.pc = "crashed"]
           ELSE snap' = [snap EXCEPT !.id_buffer = SetElement(snap.id_buffer, snap.fi, convert_jmethodID_to_jlong(IF snap.fi < Len(infop.frame_buffer) THEN infop.frame_buffer[snap.fi + 1] ELSE Garbage)),
                                     !.fi = snap.fi + 1,
                                     !.afterRelease = snap.afterRelease \/ snap.info # "live",
                                     !.pc = IF snap.fi + 1 < infop.frame_count THEN "frame" ELSE "region"]
    /\ UNCHANGED <<fbVars, metaVars, twoVars, threadType, longArrType, threads, states, frames>>

\* lines 344-346: SetLongArrayRegion(env, jmethodIdArr, 0, infop->frame_count,
\* id_buffer); free(id_buffer); and the loop's ti++.
AllRegion ==
    /\ snap.pc = "region"
    /\ LET infop == ThreadInfoAt(snap, snap.ti)
       IN  /\ frames' = SetElement(frames, snap.ti, SetArrayRegion(frames.elems[snap.ti + 1], 0, infop.frame_count, snap.id_buffer))
           /\ snap' = [snap EXCEPT !.id_buffer = NullRef, !.fi = 0, !.ti = snap.ti + 1,
                                    !.afterRelease = snap.afterRelease \/ snap.info # "live",
                                    !.pc = IF snap.ti + 1 < snap.thread_count THEN "thread" ELSE "states"]
    /\ UNCHANGED <<fbVars, metaVars, twoVars, threadType, longArrType, threads, states>>

\* line 348: SetIntArrayRegion(env, statesArr, 0, thread_count, state_buffer);
AllStates ==
    /\ snap.pc = "states"
    /\ states' = SetArrayRegion(states, 0, snap.thread_count, snap.state_buffer)
    /\ snap' = [snap EXCEPT !.pc = "dealloc"]
    /\ UNCHANGED <<fbVars, metaVars, twoVars, threadType, longArrType, threads, frames>>

\* lines 351-352: the one Deallocate of stack_info, which succeeds.
AllDeallocate ==
    /\ snap.pc = "dealloc"
    /\ snap' = [Deallocate(snap) EXCEPT !.pc = "free"]
    /\ UNCHANGED <<fbVars, metaVars, twoVars, threadType, longArrType, threads, states, frames>>

\* line 353: free(state_buffer); and the return.
AllReturn ==
    /\ snap.pc = "free"
    /\ snap' = [snap EXCEPT !.pc = "returned", !.state_buffer = NullRef, !.thread_count = 0, !.ti = 0]
    /\ UNCHANGED <<fbVars, metaVars, twoVars, threadType, longArrType, threads, states, frames>>

\* --------- two concurrent calls of getMethodNamesForJMethodIds (lines 143-287)
\* Two threads each make one call; the locals (methodIds, i, the strings of
\* the current method) are per caller, the five statics of lines 143-145 are
\* the same variables for both. A step is the setup of lines 189-196, the
\* lookups of one method, one copy_into_data_array, the end of an iteration or
\* lines 276-286.
Callers == {1, 2}

\* The method ids the two callers pass: a resolvable one and one whose
\* declaring class lookup fails.
TwoIds == {1, 3}

TwoBatches == UNION {[1..n -> TwoIds] : n \in 0..MaxTwoMethods}

IdleCaller == [pc |-> "idle", methodIds |-> <<>>, i |-> 0, pending |-> <<>>,
               result |-> [ret |-> <<>>, packedArrayOffsets |-> <<>>]]

NoCrash == \A t \in Callers : two[t].pc # "crashed"

\* The int block a with indeterminate elements behind its end, up to n elements.
Pad(a, n) == a \o [k \in 1..(n - Len(a)) |-> Garbage]

\* lines 189-196: the statics are set up for this call, whatever another call
\* in flight has in them.
TwoCall(t, jmethodIds) ==
    /\ NoCrash /\ two[t].pc = "idle"
    /\ LET st == InitialStatics(Len(jmethodIds))
       IN  /\ byteData' = st.byteData
           /\ byteDataLen' = st.byteDataLen
           /\ strOffsets' = st.strOffsets
           /\ dataOfs' = st.dataOfs
           /\ ofsIdx' = st.ofsIdx
    /\ dangling' = [byteData |-> FALSE, strOffsets |-> FALSE]
    /\ two' = [two EXCEPT ![t] = [IdleCaller EXCEPT !.pc = IF Len(jmethodIds) > 0 THEN "lookup" ELSE "finish",
                                                     !.methodIds = jmethodIds]]
    /\ UNCHANGED <<fbVars, allVars, call, result, hist>>

\* lines 198-256 of one iteration of caller t: the lookups for methodIds[i].
TwoLookup(t) ==
    /\ NoCrash /\ two[t].pc = "lookup"
    /\ two' = [two EXCEPT ![t].pc = "append",
                          ![t].pending = LookupMethod(two[t].methodIds[two[t].i + 1]).names]
    /\ UNCHANGED <<fbVars, allVars, metaVars, dangling>>

\* One copy_into_data_array of caller t on the shared statics. A store into a
\* freed block, or behind the end of the offsets block, either ends the
\* process or goes through: into the stale block, or lost behind the end.
TwoAppend(t) ==
    /\ NoCrash /\ two[t].pc = "append"
    /\ LET s == Head(two[t].pending)
           undefined == dangling.byteData \/ dangling.strOffsets \/ ofsIdx >= Len(strOffsets)
           st == copy_into_data_array([Statics EXCEPT !.strOffsets = Pad(strOffsets, ofsIdx + 1)], s)
           proceed ==
               /\ byteData' = st.byteData
               /\ byteDataLen' = st.byteDataLen
               /\ strOffsets' = SubSeq(st.strOffsets, 1, Len(strOffsets))
               /\ dataOfs' = st.dataOfs
               /\ ofsIdx' = st.ofsIdx
               /\ dangling' = [dangling EXCEPT !.byteData = dangling.byteData /\ st.byteDataLen = byteDataLen]
               /\ two' = [two EXCEPT ![t].pending = Tail(two[t].pending),
                                     ![t].pc = IF Len(two[t].pending) = 1 THEN "release" ELSE "append"]
           crash ==
               /\ two' = [two EXCEPT ![t].pc = "crashed"]
               /\ UNCHANGED <<byteData, byteDataLen, strOffsets, dataOfs, ofsIdx, dangling>>
       IN  proceed \/ (undefined /\ crash)
    /\ UNCHANGED <<fbVars, allVars, call, result, hist>>

\* lines 262-273 and the loop's i++ of caller t.
TwoEndIteration(t) ==
    /\ NoCrash /\ two[t].pc = "release"
    /\ two' = [two EXCEPT ![t].i = two[t].i + 1,
                          ![t].pc = IF two[t].i + 1 < Len(two[t].methodIds) THEN "lookup" ELSE "finish"]
    /\ UNCHANGED <<fbVars, allVars, metaVars, dangling>>

\* lines 276-286 of caller t: dataOfs bytes of byteData and nMethods * 4 ints
\* of strOffsets go to Java, then both blocks are freed. Reading or freeing a
\* block already freed either ends the process or goes through on the stale
\* block; ints behind the end of the offsets block are indeterminate.
TwoReturn(t) ==
    /\ NoCrash /\ two[t].pc = "finish"
    /\ LET n == Len(two[t].methodIds) * PACKEDARR_ITEMS
           undefined == dangling.byteData \/ dangling.strOffsets \/ n > Len(strOffsets)
           proceed ==
               /\ two' = [two EXCEPT ![t].pc = "returned",
                                     ![t].result = [ret |-> SubSeq(byteData, 1, dataOfs),
                                                    packedArrayOffsets |-> SubSeq(Pad(strOffsets, n), 1, n)]]
               /\ dangling' = [byteData |-> TRUE, strOffsets |-> TRUE]
           crash ==
               /\ two' = [two EXCEPT ![t].pc = "crashed"]
               /\ UNCHANGED dangling
       IN  proceed \/ (undefined /\ crash)
    /\ UNCHANGED <<fbVars, allVars, metaVars>>

\* ------------------------------------------------------------ specification
Init ==
    /\ stack_frames_buffer = NULL
    /\ stack_id_buffer = NULL
    /\ heap = [b \in Blocks |-> UnusedBlock]
    /\ ctl = [pc |-> "idle", after |-> "idle", size |-> 0, createFailed |-> FALSE, held |-> {}]
    /\ smp = IdleSampler
    /\ out = Zeros
    /\ byteData = <<>>
    /\ strOffsets = <<>>
    /\ byteDataLen = 0
    /\ dataOfs = 0
    /\ ofsIdx = 0
    /\ call = IdleCall
    /\ result = [ret |-> <<>>, packedArrayOffsets |-> <<>>]
    /\ hist = NoHistory
    /\ threadType = NULL
    /\ longArrType = NULL
    /\ threads = NullRef
    /\ states = NullRef
    /\ frames = NullRef
    /\ snap = IdleSnap
    /\ two = [t \in Callers |-> IdleCaller]
    /\ dangling = [byteData |-> FALSE, strOffsets |-> FALSE]

Next ==
    \/ \E n \in 1..MaxCap : CreateCall(n)
    \/ CreateAllocFrames
    \/ CreateAllocIds
    \/ ClearCall
    \/ ClearFreeFrames
    \/ ClearFreeIds
    \/ ClearNullFrames
    \/ ClearNullIds
    \/ \E t \in Threads, d \in 0..MaxDepth : SampleCall(t, d)
    \/ SampleWalk
    \/ SampleLoop
    \/ SampleSet

vars == <<fbVars, metaVars, allVars, twoVars>>

Spec == Init /\ [][Next]_vars

NextMeta ==
    \/ \E ids \in Batches : MetaCall(ids)
    \/ MetaLookup
    \/ MetaAppend
    \/ MetaEndIteration
    \/ MetaReturn

SpecMeta == Init /\ [][NextMeta]_vars

NextAll ==
    \/ AllCall
    \/ AllSetup
    \/ AllThread
    \/ AllFrame
    \/ AllRegion
    \/ AllStates
    \/ AllDeallocate
    \/ AllReturn

SpecAll == Init /\ [][NextAll]_vars

NextTwo ==
    \/ \E t \in Callers, ids \in TwoBatches : TwoCall(t, ids)
    \/ \E t \in Callers : TwoLookup(t)
    \/ \E t \in Callers : TwoAppend(t)
    \/ \E t \in Callers : TwoEndIteration(t)
    \/ \E t \in Callers : TwoReturn(t)

SpecTwo == Init /\ [][NextTwo]_vars

\* ------------------------------------------------- frame buffer: properties
\* C1 (stated as claimed): getCurrentStackFrameIds never reads or writes a
\* frame array or identifier array that clearNativeStackFrameBuffer has
\* already released, whatever the interleaving of the two calls.
C1_NoAccessToReleasedArray == ~smp.released

\* C8: a sampling call entered while no frame buffer is allocated returns 0,
\* does not invoke the runtime's stack walk and writes neither the caller's
\* output array nor the shared arrays.
C8_NoBufferReturnsZero == smp.entryNull => (smp.pc = "done" /\ smp.ret = 0 /\ ~smp.walked /\ smp.sharedWrites = 0 /\ ~smp.outWritten /\ out = Zeros)

\* C8 witness: a sampling call made after a clear released a buffer, answered 0.
C8_Witness == smp.entryNull /\ smp.pc = "done" /\ stack_id_buffer = NULL /\ \E b \in Blocks : heap[b].st = "freed"

\* C9 (stated as claimed): after a create in which an allocation failed, a
\* sampling call that runs with no control step in between returns 0 without
\* walking the stack or touching either array.
C9_FailedCreateIsNoBuffer == (smp.afterFailedCreate /\ smp.alone) => (smp.pc = "done" /\ smp.ret = 0 /\ ~smp.walked /\ smp.sharedWrites = 0)

\* C10 (stated as claimed): every array obtained by a create is either still
\* held by one of the two references or has been released, and none is
\* released twice.
C10_NoLeakNoDoubleRelease == \A b \in Blocks : (heap[b].st = "live" => b \in {stack_frames_buffer, stack_id_buffer}) /\ heap[b].frees <= 1

\* The steps of clearNativeStackFrameBuffer, called from Java or from create.
ClearPcs == {"k_free1", "k_free2", "k_null1", "k_null2"}

\* C11: clearNativeStackFrameBuffer is idempotent. The step that ends a clear
\* leaves both references null and every array the references held at its
\* entry released, once; and every step of a clear entered with both
\* references null (a repeated clear, or a clear with no buffer ever created)
\* changes neither the references nor the heap, so nothing is released twice.
C11_ClearIdempotent ==
    [][(ctl.pc \in ClearPcs /\ ctl' # ctl) =>
         /\ (ctl'.pc \notin ClearPcs =>
               /\ stack_frames_buffer' = NULL /\ stack_id_buffer' = NULL
               /\ \A b \in ctl.held : heap'[b].st = "freed" /\ heap'[b].frees = 1)
         /\ (ctl.held = {} =>
               /\ heap' = heap
               /\ stack_frames_buffer' = NULL /\ stack_id_buffer' = NULL)
         /\ \A b \in Blocks : heap'[b].frees <= 1]_vars

\* C11 witness: a clear called from Java with both references already null,
\* at its last step, after an earlier clear released the two arrays of a buffer.
C11_Witness == ctl.pc = "k_null2" /\ ctl.after = "idle" /\ ctl.held = {} /\ Cardinality({b \in Blocks : heap[b].st = "freed" /\ heap[b].frees = 1}) >= 2

\* Both arrays are allocated with room for at least d elements.
BufferOfDepth(d) ==
    /\ stack_frames_buffer # NULL /\ heap[stack_frames_buffer].st = "live" /\ d <= heap[stack_frames_buffer].cap
    /\ stack_id_buffer # NULL /\ heap[stack_id_buffer].st = "live" /\ d <= heap[stack_id_buffer].cap

\* C15: a sampling call that runs with the buffer allocated, depth within its
\* capacity and no create or clear in between returns count with
\* 0 <= count <= depth, has written to "ret" exactly the identifiers of the
\* innermost count frames of the thread, in order, and nothing beyond them; and
\* every element it writes in the two shared arrays lies below the capacity.
C15_CaptureWritesFrames ==
    [][(smp.alone /\ ctl' = ctl /\ BufferOfDepth(smp.depth)) =>
         /\ (smp.pc = "walk" /\ smp'.pc # "walk" => smp'.count <= heap[stack_frames_buffer].cap)
         /\ (smp.pc = "loop" /\ smp' # smp => smp.i < heap[stack_id_buffer].cap)
         /\ (smp.pc = "set" /\ smp'.pc = "done" =>
               /\ smp'.ret \in 0..smp.depth
               /\ smp'.ret <= Len(StackOf(smp.thread))
               /\ \A k \in 1..MaxDepth :
                    out'[k] = IF k <= smp'.ret THEN convert_jmethodID_to_jlong(StackOf(smp.thread)[k]) ELSE out[k])]_vars

\* C15 witness: an undisturbed call for thread t1 with depth 2 has returned 2
\* and both of t1's frames are in "ret" and in the identifier array.
C15_Witness ==
    /\ smp.pc = "done" /\ smp.alone /\ smp.thread = "t1" /\ smp.depth = 2 /\ smp.ret = 2
    /\ BufferOfDepth(2)
    /\ SubSeq(out, 1, 2) = StackOf("t1")
    /\ SubSeq(heap[stack_id_buffer].data, 1, 2) = StackOf("t1")

\* ------------------------------------------ packed method names: properties
\* Field k (from 1) of a packed result, decoded as the reader does: from its
\* offset to the next offset, or to the end of the bytes for the last field.
\* A result whose offsets cannot be decoded yields the one-element <<Uninit>>.
Field(res, k) ==
    LET offs == res.packedArrayOffsets
        from == offs[k]
        to == IF k < Len(offs) THEN offs[k + 1] ELSE Len(res.ret)
    IN  IF from < 0 \/ to > Len(res.ret) \/ to < from THEN <<Uninit>> ELSE SubSeq(res.ret, from + 1, to)

\* The four fields of record j (from 1).
Record(res, j) == <<Field(res, 4 * j - 3), Field(res, 4 * j - 2), Field(res, 4 * j - 1), Field(res, 4 * j)>>

Placeholder == <<<<"<", "u", "n", "k", "n", "o", "w", "n", " ", "c", "l", "a", "s", "s", ">">>, <<"<", "u", "n", "k", "n", "o", "w", "n", " ", "m", "e", "t", "h", "o", "d", ">">>, <<"(", ")", "V">>, <<"0">>>>

Returned == call.pc = "returned"

Handles == 1..Len(call.methodIds)

MethodAt(j) == JvmtiMethod(call.methodIds[j])

DeclFails(m) == m.decl # "ok"

\* One of the declaring-type, type-signature and method-name lookups fails.
EarlyLookupFails(m) == DeclFails(m) \/ ~m.classOk \/ ~m.nameOk

\* Only the native-flag lookup fails.
OnlyNativeFails(m) == ~EarlyLookupFails(m) /\ ~m.nativeOk

AllSucceed(m) == ~EarlyLookupFails(m) /\ m.nativeOk

\* The number of the first failing lookup, which is the number of lookups made
\* when the later ones are skipped.
FirstFailing(m) == IF DeclFails(m) THEN 1 ELSE IF ~m.classOk THEN 2 ELSE IF ~m.nameOk THEN 3 ELSE 4

\* L<name>; without its first and last character, any other string as it is.
Demangled(sig) == IF Len(sig) >= 2 /\ sig[1] = "L" /\ sig[Len(sig)] = ";" THEN SubSeq(sig, 2, Len(sig) - 1) ELSE sig

\* C2 (stated as claimed): a handle with any failing lookup, the native-flag
\* lookup included, gets the placeholder record and no lookup after the
\* failing one.
C2_AnyFailureGivesPlaceholder == Returned => \A j \in Handles : ~AllSucceed(MethodAt(j)) => (Record(result, j) = Placeholder /\ hist.lookups[j] = FirstFailing(MethodAt(j)))

\* C2 (amended): a handle whose declaring-type, type-signature or method-name
\* lookup fails gets the placeholder record and no lookup after the failing
\* one; a handle for which only the native-flag lookup fails gets its regular
\* record with the native flag "0".
C2_EarlyFailureGivesPlaceholder ==
    Returned => \A j \in Handles :
        LET m == MethodAt(j)
        IN  /\ EarlyLookupFails(m) => (Record(result, j) = Placeholder /\ hist.lookups[j] = FirstFailing(m))
            /\ OnlyNativeFails(m) => Record(result, j) = <<Demangled(m.className), m.methodName, m.methodSig, <<"0">>>>

\* C2 witness: a returned batch with a failed type-signature lookup and a
\* failed native-flag lookup.
C2_Witness == Returned /\ (\E j \in Handles : ~DeclFails(MethodAt(j)) /\ ~MethodAt(j).classOk) /\ (\E j \in Handles : OnlyNativeFails(MethodAt(j)))

RECURSIVE SumOfFieldLengths(_, _)
SumOfFieldLengths(res, k) == IF k = 0 THEN 0 ELSE Len(Field(res, k)) + SumOfFieldLengths(res, k - 1)

\* C3: a returned batch of N handles has exactly 4N offsets written, starting
\* at 0 and non-decreasing, every derived field length is >= 0 and the field
\* lengths add up to the length of the returned bytes.
C3_OffsetsWellFormed ==
    Returned =>
        LET offs == result.packedArrayOffsets
            n4 == 4 * Len(call.methodIds)
        IN  /\ Len(offs) = n4 /\ ofsIdx = n4
            /\ n4 > 0 => offs[1] = 0
            /\ \A k \in 1..n4 : offs[k] >= 0 /\ offs[k] <= Len(result.ret)
            /\ \A k \in 1..(n4 - 1) : offs[k] <= offs[k + 1]
            /\ \A k \in 1..n4 : (IF k < n4 THEN offs[k + 1] ELSE Len(result.ret)) - offs[k] >= 0
            /\ SumOfFieldLengths(result, n4) = Len(result.ret)

\* C3 witness: a returned batch mixing a resolved and a placeholder record,
\* after the byte store grew.
C3_Witness == Returned /\ hist.reallocs > 0 /\ (\E j \in Handles : AllSucceed(MethodAt(j))) /\ (\E j \in Handles : EarlyLookupFails(MethodAt(j)))

\* C4: while a call runs, the first dataOfs bytes of the store are the
\* concatenation, in order, of everything appended so far.
C4_AppendsPreserved == call.pc \in {"lookup", "append", "release", "finish"} => (dataOfs = Len(hist.appended) /\ dataOfs <= Len(byteData) /\ SubSeq(byteData, 1, dataOfs) = hist.appended)

\* C4 witness: the store has been reallocated twice and appended to since.
C4_Witness == call.pc = "finish" /\ hist.reallocs >= 2 /\ dataOfs > 0

\* The method ids all of whose lookups succeed.
ResolvableIds == {id \in MethodIds : AllSucceed(JvmtiMethod(id))}

\* C5: when the declaring-type lookup of handle i fails, record i is the
\* placeholder and every other record is what the batch yields with handle i
\* replaced by a handle that resolves.
C5_PlaceholderIsolated ==
    Returned => \A i \in Handles : DeclFails(MethodAt(i)) =>
        /\ Record(result, i) = Placeholder
        /\ \A id \in ResolvableIds :
              LET twin == ResolveBatch([call.methodIds EXCEPT ![i] = id])
              IN  \A j \in Handles \ {i} : Record(result, j) = Record(twin, j)

\* C5 witness: a returned batch where a declaring-type lookup fails before a
\* handle that resolves.
C5_Witness == Returned /\ \E i, j \in Handles : i < j /\ DeclFails(MethodAt(i)) /\ AllSucceed(MethodAt(j))

\* C6: a handle whose four lookups succeed gets the four fields type name,
\* method name, method signature, native flag, in that order, the flag being
\* "1" for a native method and "0" otherwise.
C6_ResolvedRecord ==
    Returned => \A j \in Handles :
        LET m == MethodAt(j)
        IN  AllSucceed(m) => Record(result, j) = <<Demangled(m.className), m.methodName, m.methodSig, IF m.native THEN <<"1">> ELSE <<"0">>>>

\* C6 witness: a returned batch with a resolved native and a resolved
\* non-native method.
C6_Witness == Returned /\ (\E j \in Handles : AllSucceed(MethodAt(j)) /\ MethodAt(j).native) /\ (\E j \in Handles : AllSucceed(MethodAt(j)) /\ ~MethodAt(j).native)

\* C7: the type-name field of every record built from the runtime's strings
\* is <name> for a type signature L<name>; and the signature itself otherwise.
C7_TypeNameDemangled ==
    Returned => \A j \in Handles :
        LET sig == MethodAt(j).className
        IN  ~EarlyLookupFails(MethodAt(j)) =>
               Field(result, 4 * j - 3) = (IF sig[1] = "L" /\ sig[Len(sig)] = ";" THEN [k \in 1..(Len(sig) - 2) |-> sig[k + 1]] ELSE sig)

\* C7 witness: a returned batch with an L<name>; type and an array type.
C7_Witness == Returned /\ (\E j \in Handles : AllSucceed(MethodAt(j)) /\ MethodAt(j).className[1] = "L") /\ (\E j \in Handles : AllSucceed(MethodAt(j)) /\ MethodAt(j).className[1] = "[")


Max(a, b) == IF a < b THEN b ELSE a

\* C16: the packed strings array starts with capacity nMethods * 4 * 10 and
\* length 0; an append of L characters with dataOfs + L > byteDataLen makes the
\* capacity max(byteDataLen * 2, dataOfs + L), an append that fits leaves it as
\* it is; the block has the size the capacity says, and after every append
\* dataOfs <= byteDataLen. This covers nMethods = 0.
C16_CapacityRule ==
    [][/\ (call'.pc \in {"lookup", "finish"} /\ call.pc \in {"idle", "returned"} =>
            /\ byteDataLen' = Len(call'.methodIds) * 4 * 10
            /\ Len(byteData') = byteDataLen'
            /\ dataOfs' = 0)
       /\ (call.pc = "append" =>
            LET L == Len(hist'.appended) - Len(hist.appended)
            IN  /\ dataOfs' = dataOfs + L
                /\ byteDataLen' = IF dataOfs + L > byteDataLen THEN Max(byteDataLen * 2, dataOfs + L) ELSE byteDataLen
                /\ Len(byteData') = byteDataLen'
                /\ dataOfs' <= byteDataLen')]_vars

\* C16 witness: the call for method 8 alone has grown the array twice, first
\* to what the 85-character type name needed (85 > 2 * 40), then by doubling.
C16_Witness == call.pc = "finish" /\ call.methodIds = <<8>> /\ hist.reallocs = 2 /\ byteDataLen = 170 /\ dataOfs <= byteDataLen

\* C18 (stated as claimed): when the call has returned, every string the
\* runtime handed out for a method id (class signature, generic class
\* signature, method name, method signature, generic method signature) has
\* been given back through Deallocate, once, on every path of the lookups.
C18_StringsGivenBack == (call.pc \in {"finish", "returned"} => hist.givenBack = hist.handedOut) /\ hist.givenBack <= hist.handedOut

\* --------------------------------------------- getAllStackTraces: properties
\* The call has returned after GetAllStackTraces handed out a snapshot.
Succeeded == snap.pc = "returned" /\ snap.err = "JVMTI_ERROR_NONE"

\* The identifiers of thread t's frames, innermost first.
IdsOfThread(t) == [k \in 1..Len(StackOf(t)) |-> convert_jmethodID_to_jlong(StackOf(t)[k])]

\* The three output arrays hold the whole of the snapshot, index by index.
OutputsComplete ==
    LET n == Len(snap.stack_info)
    IN  /\ ~threads.null /\ ~states.null /\ ~frames.null
        /\ Len(threads.elems) = n /\ Len(states.elems) = n /\ Len(frames.elems) = n
        /\ \A i \in 1..n :
             /\ threads.elems[i] = snap.stack_info[i].thread
             /\ states.elems[i] = convert_JVMTI_thread_status_to_jfluid_status(snap.stack_info[i].state)
             /\ ~frames.elems[i].null
             /\ frames.elems[i].elems = IdsOfThread(snap.stack_info[i].thread)

\* C12: after a successful getAllStackTraces the thread array, the state
\* array and the array of identifier arrays each have thread_count elements,
\* and for every index i they hold thread i of the snapshot, the status code
\* of that thread's raw state and that thread's frames converted in order.
C12_OutputsAligned == Succeeded => OutputsComplete

\* C12 witness: a successful call for the snapshot <<t2, t1>> with different
\* raw states; t1's two frames are at index 1 (from 0) of the outputs.
C12_Witness ==
    /\ Succeeded /\ Len(snap.stack_info) = 2
    /\ threads.elems = <<"t2", "t1">>
    /\ states.elems[1] # states.elems[2]
    /\ frames.elems[2].elems = IdsOfThread("t1") /\ Len(frames.elems[2].elems) = 2

\* C13: when GetAllStackTraces reports an error the call returns at once: no
\* step of it changes element 0 of any of the three holders, and no
\* Deallocate is made.
C13_ErrorLeavesHoldersUnchanged ==
    [][snap'.err # "JVMTI_ERROR_NONE" =>
         /\ threads' = threads /\ states' = states /\ frames' = frames
         /\ snap'.pc = "returned" /\ snap'.releases = 0 /\ snap'.info = "none"]_vars

\* C13 witness: a failed call has returned and the holders still have the
\* arrays of an earlier successful call for two threads.
C13_Witness ==
    /\ snap.pc = "returned" /\ snap.err # "JVMTI_ERROR_NONE" /\ snap.releases = 0
    /\ ~threads.null /\ Len(threads.elems) = 2 /\ Len(states.elems) = 2 /\ Len(frames.elems) = 2

\* C14: the snapshot is released at most once at any time and exactly once
\* when a successful call has returned; it is released only when every
\* thread's handle, status code and identifiers are in the outputs; and no
\* read of its data is made after the release.
C14_ReleasedOnceAfterCopy ==
    /\ snap.releases <= 1
    /\ (Succeeded => snap.releases = 1 /\ snap.info = "released")
    /\ (snap.info = "released" => OutputsComplete)
    /\ (snap.info = "live" => snap.releases = 0)
    /\ ~snap.afterRelease

\* C14 witness: the snapshot of two threads, with three frames among them,
\* has just been released and state_buffer is still to be freed.
C14_Witness ==
    /\ snap.pc = "free" /\ snap.info = "released" /\ snap.releases = 1
    /\ Len(snap.stack_info) = 2 /\ \E i \in 1..2 : snap.stack_info[i].frame_count = 2

\* ------------------------------------------------ concurrent calls: properties
\* C17 (stated as claimed): the packed strings array and the offsets array
\* are private to a call, so each of two concurrent calls returns the bytes
\* and the nMethods * 4 offsets it returns when it runs alone.
C17_ConcurrentCallsIndependent == \A t \in Callers : two[t].pc = "returned" => two[t].result = ResolveBatch(two[t].methodIds)

=============================================================================
